---------------------------- MODULE Spec2Model ----------------------------
(***************************************************************************)
(* Geofenced attendance API (src/main.py): organizations with a location,  *)
(* employees of an organization, and check-ins accepted only within        *)
(* MAX_CHECKIN_DISTANCE_METERS of the organization.                        *)
(*                                                                         *)
(* Representation.                                                         *)
(*  - Coordinates are integers in microdegrees, in GeoJSON order           *)
(*    <<longitude, latitude>>.                                             *)
(*  - A distance is a fixed-point number of metres with three decimals,    *)
(*    [m |-> metres, mm |-> thousandths]; round(x, 2) then really rounds.  *)
(*  - A Python dict is the sequence of its items in insertion order.       *)
(*  - uuid.uuid4() is a choice from UUIDs, so that collisions happen.      *)
(*  - Attendance.timestamp (utcnow) is left out: no operation reads it.    *)
(***************************************************************************)
EXTENDS Integers, Sequences, FiniteSets

\* organizations_db, employees_db, attendance_db: the three dicts of the module.
\* last: the last request handled and how it ended (see Respond).
\* tasks: per connection, the request in flight and where its handler stands.
VARIABLES organizations_db, employees_db, attendance_db, last, tasks

dbs == <<organizations_db, employees_db, attendance_db>>
vars == <<organizations_db, employees_db, attendance_db, last, tasks>>

(***************************************************************************)
(* Bounds of the model.                                                    *)
(***************************************************************************)
\* Records the three collections hold together: a request that would store
\* one more is not taken (requests handled one at a time).
MaxRecords == 4
\* The same, with requests in flight.
MaxConcRecords == 3

\* Values uuid.uuid4() may return; the three collections draw from the same set.
UUIDs == {"u1", "u2"}
\* Requests in flight at once, one per connection.
MaxInFlight == 2
Conns == 1 .. MaxInFlight

(***************************************************************************)
(* Configuration and HTTP statuses.                                        *)
(***************************************************************************)
MAX_CHECKIN_DISTANCE_METERS == 1000

HTTP_200_OK == 200
HTTP_201_CREATED == 201
HTTP_400_BAD_REQUEST == 400
HTTP_404_NOT_FOUND == 404
HTTP_409_CONFLICT == 409
HTTP_422_UNPROCESSABLE_ENTITY == 422

(***************************************************************************)
(* Fixed-point distances.                                                  *)
(***************************************************************************)
D(m, mm) == [m |-> m, mm |-> mm]

Meters(n) == D(n, 0)

\* a > b on distances.
Gt(a, b) == a.m > b.m \/ (a.m = b.m /\ a.mm > b.mm)

\* Python's round(x, 2): to the nearest hundredth, a tie to the even hundredth.
round2(x) ==
    LET cm   == x.mm \div 10
        rest == x.mm % 10
        up   == rest > 5 \/ (rest = 5 /\ cm % 2 = 1)
        cm2  == IF up THEN cm + 1 ELSE cm
    IN  IF cm2 = 100 THEN D(x.m + 1, 0) ELSE D(x.m, cm2 * 10)

(***************************************************************************)
(* GeoPoint and its validator.                                             *)
(***************************************************************************)
Degrees(n) == n * 1000000

GeoPoint(longitude, latitude) == [coordinates |-> <<longitude, latitude>>]

\* The validator without its latitude test.
validate_coordinates_LongitudeOnly(v) ==
    LET longitude == v[1]
    IN  Degrees(-180) <= longitude /\ longitude <= Degrees(180)

validate_coordinates(v) ==
    LET longitude == v[1]
        latitude  == v[2]
    IN  /\ Degrees(-180) <= longitude /\ longitude <= Degrees(180)
        /\ Degrees(-90) <= latitude /\ latitude <= Degrees(90)

\* The points of the model that pass validation, in the order of DistanceTable.
Origin     == GeoPoint(0, 0)
Near       == GeoPoint(0, 5000)
AtLimit    == GeoPoint(8921, 1062)
JustOver   == GeoPoint(2686, 8630)
Far        == GeoPoint(0, 50000)
NorthPole  == GeoPoint(Degrees(180), Degrees(90))
NorthPoleW == GeoPoint(Degrees(-180), Degrees(90))
SouthPole  == GeoPoint(Degrees(-180), Degrees(-90))

KnownPoints ==
    << Origin, Near, AtLimit, JustOver, Far, NorthPole, NorthPoleW, SouthPole >>

\* Points a request may carry that fail validation.
BadPoints ==
    { GeoPoint(Degrees(200), 0), GeoPoint(0, Degrees(-95)),
      GeoPoint(Degrees(-180) - 1, 0), GeoPoint(Degrees(100), Degrees(90) + 1) }

(***************************************************************************)
(* geopy's geodesic(coords1, coords2).meters on the WGS-84 ellipsoid, to   *)
(* the millimetre, tabulated for the points of the model.  Arguments are   *)
(* <<latitude, longitude>> pairs, as geopy takes them.                     *)
(***************************************************************************)
DistanceTable ==
    << << D(0, 0), D(552, 871), D(1000, 0), D(1000, 4), D(5528, 714),
          D(10001965, 729), D(10001965, 729), D(10001965, 729) >>,
       << D(552, 871), D(0, 0), D(1084, 352), D(500, 513), D(4975, 842),
          D(10001412, 858), D(10001412, 858), D(10002518, 601) >>,
       << D(1000, 0), D(1084, 352), D(0, 0), D(1087, 208), D(5501, 655),
          D(10001848, 299), D(10001848, 299), D(10002083, 159) >>,
       << D(1000, 4), D(500, 513), D(1087, 208), D(0, 0), D(4584, 219),
          D(10001011, 473), D(10001011, 473), D(10002919, 985) >>,
       << D(5528, 714), D(4975, 842), D(5501, 655), D(4584, 219), D(0, 0),
          D(9996437, 16), D(9996437, 16), D(10007494, 443) >>,
       << D(10001965, 729), D(10001412, 858), D(10001848, 299),
          D(10001011, 473), D(9996437, 16), D(0, 0), D(0, 0),
          D(20003931, 459) >>,
       << D(10001965, 729), D(10001412, 858), D(10001848, 299),
          D(10001011, 473), D(9996437, 16), D(0, 0), D(0, 0),
          D(20003931, 459) >>,
       << D(10001965, 729), D(10002518, 601), D(10002083, 159),
          D(10002919, 985), D(10007494, 443), D(20003931, 459),
          D(20003931, 459), D(0, 0) >> >>

PointIndex(latlon) ==
    CHOOSE i \in DOMAIN KnownPoints :
        KnownPoints[i].coordinates = <<latlon[2], latlon[1]>>

geodesic(coords1, coords2) ==
    DistanceTable[PointIndex(coords1)][PointIndex(coords2)]

calculate_distance_meters(point1, point2) ==
    LET coords1 == <<point1.coordinates[2], point1.coordinates[1]>>
        coords2 == <<point2.coordinates[2], point2.coordinates[1]>>
    IN  geodesic(coords1, coords2)

(***************************************************************************)
(* Python dicts: items in insertion order.                                 *)
(***************************************************************************)
Keys(d) == { d[i].key : i \in DOMAIN d }

HasKey(d, k) == k \in Keys(d)

\* d.get(k), for a key that is present.
DictGet(d, k) == d[CHOOSE i \in DOMAIN d : d[i].key = k].value

\* d[k] = v: a new key is appended, an existing key keeps its place and
\* takes the new value.
DictSet(d, k, v) ==
    IF HasKey(d, k)
    THEN [i \in DOMAIN d |-> IF d[i].key = k THEN [key |-> k, value |-> v] ELSE d[i]]
    ELSE Append(d, [key |-> k, value |-> v])

\* The values listed newest first.
Values_NewestFirst(d) == [i \in DOMAIN d |-> d[Len(d) + 1 - i].value]

\* list(d.values())
Values(d) == [i \in DOMAIN d |-> d[i].value]

(***************************************************************************)
(* Request bodies and stored models.                                       *)
(***************************************************************************)
OrganizationNames == {"Example Corp"}
EmployeeNames == {"Jane Doe"}

\* Locations a create-organization request may carry.
OrganizationLocations == {Origin, NorthPole} \cup BadPoints
\* Locations a check-in request may carry.
CheckInLocations ==
    {Origin, Near, AtLimit, JustOver, Far, NorthPoleW, SouthPole} \cup BadPoints

OrganizationBase == [name : OrganizationNames, location : OrganizationLocations]
EmployeeBase == [name : EmployeeNames, organization_id : UUIDs]
CheckInRequest == [employee_id : UUIDs, location : CheckInLocations]

Organization(org_data, id) ==
    [id |-> id, name |-> org_data.name, location |-> org_data.location]

Employee(employee_data, id) ==
    [id |-> id, name |-> employee_data.name,
     organization_id |-> employee_data.organization_id]

Attendance(employee_id, location, organization_id, distance_meters, id) ==
    [id |-> id, employee_id |-> employee_id, location |-> location,
     organization_id |-> organization_id, distance_meters |-> distance_meters]

\* The id field of a model instance that was never built.
NoId == "none"

\* The last request handled and how it ended: the endpoint, the request body
\* (or path parameter), the id uuid4 gave the new model instance (NoId when the
\* handler raised before building it), the status and the detail.
Respond(op, request, new_id, status, detail) ==
    [op |-> op, request |-> request, new_id |-> new_id,
     status |-> status, detail |-> detail]

(***************************************************************************)
(* Helper functions.                                                       *)
(***************************************************************************)
\* TRUE when get_employee_or_404 returns, FALSE when it raises 404.
get_employee_or_404(employee_id) == HasKey(employees_db, employee_id)

\* TRUE when get_organization_or_404 returns, FALSE when it raises 404.
get_organization_or_404(org_id) == HasKey(organizations_db, org_id)

\* The threshold applied to the rounded distance.
ExceedsGeofence_AfterRounding(distance) ==
    Gt(round2(distance), Meters(MAX_CHECKIN_DISTANCE_METERS))

\* The threshold itself refused.
ExceedsGeofence_Inclusive(distance) ==
    ~Gt(Meters(MAX_CHECKIN_DISTANCE_METERS), distance)

\* The threshold read as kilometres.
ExceedsGeofence_Kilometres(distance) ==
    Gt(distance, Meters(MAX_CHECKIN_DISTANCE_METERS * 1000))

ExceedsGeofence(distance) == Gt(distance, Meters(MAX_CHECKIN_DISTANCE_METERS))

(***************************************************************************)
(* Suspension points.  Every handler is an `async def` whose body holds no *)
(* await: once the event loop starts it, it runs to its return or raise.   *)
(* AwaitPoints is the set of handlers that would yield to the event loop   *)
(* between their checks and their write.                                   *)
(***************************************************************************)
\* Every handler awaiting (a database call, say) between its checks and its write.
AwaitPoints_BeforeWrite == {"create_organization", "create_employee", "check_in"}

AwaitPoints == {}

(***************************************************************************)
(* POST /organizations                                                     *)
(***************************************************************************)
\* The handler without its test of the new id.
create_organization_outcome_NoConflictTest(org_data, new_id) ==
    IF ~validate_coordinates(org_data.location.coordinates)
    THEN Respond("create_organization", org_data, NoId,
                 HTTP_422_UNPROCESSABLE_ENTITY, "validation")
    ELSE Respond("create_organization", org_data, new_id, HTTP_201_CREATED, "")

\* How the request ends, given the id uuid4 returns.
create_organization_outcome(org_data, new_id) ==
    IF ~validate_coordinates(org_data.location.coordinates)
    THEN Respond("create_organization", org_data, NoId,
                 HTTP_422_UNPROCESSABLE_ENTITY, "validation")
    ELSE IF HasKey(organizations_db, new_id)
    THEN Respond("create_organization", org_data, new_id,
                 HTTP_409_CONFLICT, "Organization ID conflict")
    ELSE Respond("create_organization", org_data, new_id, HTTP_201_CREATED, "")

create_organization_store(new_org) ==
    /\ organizations_db' = DictSet(organizations_db, new_org.id, new_org)
    /\ UNCHANGED <<employees_db, attendance_db>>

create_organization(org_data, new_id) ==
    LET out == create_organization_outcome(org_data, new_id)
    IN  /\ last' = out
        /\ IF out.status = HTTP_201_CREATED
           THEN create_organization_store(Organization(org_data, new_id))
           ELSE UNCHANGED dbs

(***************************************************************************)
(* POST /employees                                                         *)
(***************************************************************************)
\* The handler without its lookup of the organization.
create_employee_outcome_NoLookup(employee_data, new_id) ==
    IF HasKey(employees_db, new_id)
    THEN Respond("create_employee", employee_data, new_id,
                 HTTP_409_CONFLICT, "Employee ID conflict")
    ELSE Respond("create_employee", employee_data, new_id, HTTP_201_CREATED, "")

create_employee_outcome(employee_data, new_id) ==
    IF ~get_organization_or_404(employee_data.organization_id)
    THEN Respond("create_employee", employee_data, NoId,
                 HTTP_404_NOT_FOUND, "Organization not found")
    ELSE IF HasKey(employees_db, new_id)
    THEN Respond("create_employee", employee_data, new_id,
                 HTTP_409_CONFLICT, "Employee ID conflict")
    ELSE Respond("create_employee", employee_data, new_id, HTTP_201_CREATED, "")

create_employee_store(new_employee) ==
    /\ employees_db' = DictSet(employees_db, new_employee.id, new_employee)
    /\ UNCHANGED <<organizations_db, attendance_db>>

create_employee(employee_data, new_id) ==
    LET out == create_employee_outcome(employee_data, new_id)
    IN  /\ last' = out
        /\ IF out.status = HTTP_201_CREATED
           THEN create_employee_store(Employee(employee_data, new_id))
           ELSE UNCHANGED dbs

(***************************************************************************)
(* POST /attendance/checkin                                                *)
(***************************************************************************)
\* The distance of step 3, for a request that passed steps 1 and 2.
check_in_distance(check_in_data) ==
    LET employee     == DictGet(employees_db, check_in_data.employee_id)
        organization == DictGet(organizations_db, employee.organization_id)
    IN  calculate_distance_meters(check_in_data.location, organization.location)

\* The handler with the 404 of step 1 built but not raised: it goes on with no
\* employee and dies on employee.organization_id.
check_in_outcome_NoRaise(check_in_data, new_id) ==
    IF ~validate_coordinates(check_in_data.location.coordinates)
    THEN Respond("check_in", check_in_data, NoId,
                 HTTP_422_UNPROCESSABLE_ENTITY, "validation")
    ELSE IF ~get_employee_or_404(check_in_data.employee_id)
    THEN Respond("check_in", check_in_data, NoId, 500, "Internal Server Error")
    ELSE IF ~get_organization_or_404(
                 DictGet(employees_db, check_in_data.employee_id).organization_id)
    THEN Respond("check_in", check_in_data, NoId,
                 HTTP_404_NOT_FOUND, "Organization not found")
    ELSE IF ExceedsGeofence(check_in_distance(check_in_data))
    THEN Respond("check_in", check_in_data, NoId,
                 HTTP_400_BAD_REQUEST, "Check-in location is too far")
    ELSE IF HasKey(attendance_db, new_id)
    THEN Respond("check_in", check_in_data, new_id,
                 HTTP_409_CONFLICT, "Attendance record ID conflict")
    ELSE Respond("check_in", check_in_data, new_id, HTTP_201_CREATED, "")

check_in_outcome(check_in_data, new_id) ==
    IF ~validate_coordinates(check_in_data.location.coordinates)
    THEN Respond("check_in", check_in_data, NoId,
                 HTTP_422_UNPROCESSABLE_ENTITY, "validation")
    ELSE IF ~get_employee_or_404(check_in_data.employee_id)
    THEN Respond("check_in", check_in_data, NoId,
                 HTTP_404_NOT_FOUND, "Employee not found")
    ELSE IF ~get_organization_or_404(
                 DictGet(employees_db, check_in_data.employee_id).organization_id)
    THEN Respond("check_in", check_in_data, NoId,
                 HTTP_404_NOT_FOUND, "Organization not found")
    ELSE IF ExceedsGeofence(check_in_distance(check_in_data))
    THEN Respond("check_in", check_in_data, NoId,
                 HTTP_400_BAD_REQUEST, "Check-in location is too far")
    ELSE IF HasKey(attendance_db, new_id)
    THEN Respond("check_in", check_in_data, new_id,
                 HTTP_409_CONFLICT, "Attendance record ID conflict")
    ELSE Respond("check_in", check_in_data, new_id, HTTP_201_CREATED, "")

attendance_record(check_in_data, new_id) ==
    LET employee     == DictGet(employees_db, check_in_data.employee_id)
        organization == DictGet(organizations_db, employee.organization_id)
    IN  Attendance(employee.id, check_in_data.location, organization.id,
                   round2(check_in_distance(check_in_data)), new_id)

check_in_store(new_record) ==
    /\ attendance_db' = DictSet(attendance_db, new_record.id, new_record)
    /\ UNCHANGED <<organizations_db, employees_db>>

check_in(check_in_data, new_id) ==
    LET out == check_in_outcome(check_in_data, new_id)
    IN  /\ last' = out
        /\ IF out.status = HTTP_201_CREATED
           THEN check_in_store(attendance_record(check_in_data, new_id))
           ELSE UNCHANGED dbs

(***************************************************************************)
(* GET /organizations, /attendance, /employees, /employees/{employee_id}   *)
(***************************************************************************)
list_organizations == Values(organizations_db)

list_attendance == Values(attendance_db)

list_employees == Values(employees_db)

ListOps == {"list_organizations", "list_attendance", "list_employees"}

list_endpoint(op) ==
    /\ last' = Respond(op, <<>>, NoId, HTTP_200_OK, "")
    /\ UNCHANGED dbs

get_employee(employee_id) ==
    /\ last' =
           IF get_employee_or_404(employee_id)
           THEN Respond("get_employee", employee_id, NoId, HTTP_200_OK, "")
           ELSE Respond("get_employee", employee_id, NoId,
                        HTTP_404_NOT_FOUND, "Employee not found")
    /\ UNCHANGED dbs

(***************************************************************************)
(* The service handling one request at a time.                             *)
(***************************************************************************)
NoTask == [pc |-> "idle"]

Stored == Len(organizations_db) + Len(employees_db) + Len(attendance_db)

Init ==
    /\ organizations_db = <<>>
    /\ employees_db = <<>>
    /\ attendance_db = <<>>
    /\ last = Respond("read_root", <<>>, NoId, HTTP_200_OK, "")
    /\ tasks = [c \in Conns |-> NoTask]

Next ==
    \/ /\ \E org_data \in OrganizationBase, new_id \in UUIDs :
              create_organization(org_data, new_id)
       /\ Stored' <= MaxRecords
       /\ UNCHANGED tasks
    \/ /\ \E employee_data \in EmployeeBase, new_id \in UUIDs :
              create_employee(employee_data, new_id)
       /\ Stored' <= MaxRecords
       /\ UNCHANGED tasks
    \/ /\ \E check_in_data \in CheckInRequest, new_id \in UUIDs :
              check_in(check_in_data, new_id)
       /\ Stored' <= MaxRecords
       /\ UNCHANGED tasks
    \/ /\ \E op \in ListOps : list_endpoint(op)
       /\ UNCHANGED tasks
    \/ /\ \E employee_id \in UUIDs : get_employee(employee_id)
       /\ UNCHANGED tasks

Spec == Init /\ [][Next]_vars

(***************************************************************************)
(* The service with several requests in flight.  A connection's request is *)
(* received (its body awaited), and later the event loop runs its handler  *)
(* up to the handler's next suspension point.                              *)
(***************************************************************************)
ConcRequests ==
    { [op |-> "create_organization", data |-> d] :
          d \in [name : OrganizationNames, location : {Origin}] }
    \cup { [op |-> "create_employee", data |-> d] : d \in EmployeeBase }
    \cup { [op |-> "check_in", data |-> d] :
               d \in [employee_id : UUIDs, location : {Origin, Far}] }

Outcome(req, new_id) ==
    CASE req.op = "create_organization" -> create_organization_outcome(req.data, new_id)
      [] req.op = "create_employee"     -> create_employee_outcome(req.data, new_id)
      [] req.op = "check_in"            -> check_in_outcome(req.data, new_id)

\* The model instance the handler has built when it reaches its write.
NewRecord(req, new_id) ==
    CASE req.op = "create_organization" -> Organization(req.data, new_id)
      [] req.op = "create_employee"     -> Employee(req.data, new_id)
      [] req.op = "check_in"            -> attendance_record(req.data, new_id)

StoreRecord(op, record) ==
    CASE op = "create_organization" -> create_organization_store(record)
      [] op = "create_employee"     -> create_employee_store(record)
      [] op = "check_in"            -> check_in_store(record)

\* The handler of req run from its first line to its return or raise.
Handle(req, new_id) ==
    CASE req.op = "create_organization" -> create_organization(req.data, new_id)
      [] req.op = "create_employee"     -> create_employee(req.data, new_id)
      [] req.op = "check_in"            -> check_in(req.data, new_id)

Receive(c, req) ==
    /\ tasks[c].pc = "idle"
    /\ tasks' = [tasks EXCEPT ![c] = [pc |-> "pending", req |-> req]]
    /\ UNCHANGED <<dbs, last>>

\* The handler starts: it runs to its end, or to its suspension point.
Start(c, new_id) ==
    LET req == tasks[c].req
        out == Outcome(req, new_id)
    IN  IF out.status = HTTP_201_CREATED /\ req.op \in AwaitPoints
        THEN /\ tasks' = [tasks EXCEPT ![c] =
                              [pc |-> "store", req |-> req, new_id |-> new_id,
                               record |-> NewRecord(req, new_id)]]
             /\ UNCHANGED <<dbs, last>>
        ELSE /\ Handle(req, new_id)
             /\ tasks' = [tasks EXCEPT ![c] = NoTask]

\* A handler suspended before its write goes on.
Resume(c) ==
    /\ StoreRecord(tasks[c].req.op, tasks[c].record)
    /\ last' = Respond(tasks[c].req.op, tasks[c].req.data, tasks[c].new_id,
                       HTTP_201_CREATED, "")
    /\ tasks' = [tasks EXCEPT ![c] = NoTask]

Run(c) ==
    /\ tasks[c].pc # "idle"
    /\ IF tasks[c].pc = "pending"
       THEN \E new_id \in UUIDs : Start(c, new_id)
       ELSE Resume(c)
    /\ Stored' <= MaxConcRecords

ConcNext ==
    \/ \E c \in Conns, req \in ConcRequests : Receive(c, req)
    \/ \E c \in Conns : Run(c)

ConcSpec == Init /\ [][ConcNext]_vars

(***************************************************************************)
(* Properties.  They are stated on the collections and on `last`, without  *)
(* the operators of the handlers' decisions: ranges, the threshold and the *)
(* rounding are restated here.  In a step that handles a request, last' is *)
(* that request and how it ended, and the unprimed collections are those   *)
(* the handler found.                                                      *)
(***************************************************************************)
InRange(location) ==
    /\ location.coordinates[1] \in -180000000 .. 180000000
    /\ location.coordinates[2] \in -90000000 .. 90000000

\* A distance of at most a few kilometres, in millimetres.
Millis(d) == d.m * 1000 + d.mm

KnownEmployee(employee_id) ==
    \E i \in DOMAIN employees_db : employees_db[i].key = employee_id

KnownOrganization(organization_id) ==
    \E j \in DOMAIN organizations_db : organizations_db[j].key = organization_id

EmployeeWithId(employee_id) ==
    employees_db[CHOOSE i \in DOMAIN employees_db :
                     employees_db[i].key = employee_id].value

OrganizationWithId(organization_id) ==
    organizations_db[CHOOSE j \in DOMAIN organizations_db :
                         organizations_db[j].key = organization_id].value

\* A well-formed check-in of an existing employee whose organization exists.
Resolvable(check_in_data) ==
    /\ InRange(check_in_data.location)
    /\ KnownEmployee(check_in_data.employee_id)
    /\ KnownOrganization(EmployeeWithId(check_in_data.employee_id).organization_id)

\* The organization a resolvable check-in is measured against.
OrganizationOf(employee_id) ==
    OrganizationWithId(EmployeeWithId(employee_id).organization_id)

ComputedDistance(check_in_data) ==
    calculate_distance_meters(check_in_data.location,
                              OrganizationOf(check_in_data.employee_id).location)

TooFar(d) == d.m > 1000 \/ (d.m = 1000 /\ d.mm > 0)

IsPrefix(s, t) == Len(s) <= Len(t) /\ \A i \in DOMAIN s : s[i] = t[i]

\* C1: a check-in of an existing employee of an existing organization whose
\* computed distance is strictly greater than 1000 m is answered 400 with the
\* geofence detail, and the three collections are as before the call.
C1_GeofenceRejection ==
    [][(/\ last'.op = "check_in"
        /\ Resolvable(last'.request)
        /\ TooFar(ComputedDistance(last'.request)))
       => /\ last'.status = 400
          /\ last'.detail = "Check-in location is too far"
          /\ organizations_db' = organizations_db
          /\ employees_db' = employees_db
          /\ attendance_db' = attendance_db]_vars

\* A check-in 4 mm beyond the threshold was just refused, after one at the
\* threshold had been stored.
C1_Witness ==
    /\ last.op = "check_in"
    /\ last.status = 400
    /\ last.request.location = JustOver
    /\ Len(attendance_db) > 0

\* C2: a check-in of an existing employee of an existing organization whose
\* computed distance is at most 1000 m (1000 m itself included), with a fresh
\* id, is answered 201 and appends exactly one attendance record: the employee,
\* the employee's organization, the submitted location and the distance rounded
\* to two decimals; organizations and employees are unchanged.
C2_CheckInAccepted ==
    [][(/\ last'.op = "check_in"
        /\ Resolvable(last'.request)
        /\ ~TooFar(ComputedDistance(last'.request))
        /\ \A i \in DOMAIN attendance_db : attendance_db[i].key # last'.new_id)
       => /\ last'.status = 201
          /\ last'.new_id \in UUIDs
          /\ Len(attendance_db') = Len(attendance_db) + 1
          /\ IsPrefix(attendance_db, attendance_db')
          /\ LET item == attendance_db'[Len(attendance_db')]
                 rec  == item.value
                 d    == ComputedDistance(last'.request)
             IN  /\ item.key = last'.new_id
                 /\ rec.id = last'.new_id
                 /\ rec.employee_id = last'.request.employee_id
                 /\ rec.organization_id =
                        EmployeeWithId(last'.request.employee_id).organization_id
                 /\ rec.location = last'.request.location
                 /\ rec.distance_meters.mm % 10 = 0
                 /\ Millis(rec.distance_meters) - Millis(d) \in -5 .. 5
          /\ organizations_db' = organizations_db
          /\ employees_db' = employees_db]_vars

\* A check-in at exactly 1000 m was just accepted and stored.
C2_Witness ==
    /\ last.op = "check_in"
    /\ last.status = 201
    /\ last.request.location = AtLimit
    /\ \E i \in DOMAIN attendance_db :
           /\ attendance_db[i].key = last.new_id
           /\ attendance_db[i].value.distance_meters = [m |-> 1000, mm |-> 0]

\* C3: create_employee with an organization_id that is no key of the
\* organization collection is answered 404 and changes no collection.
C3_EmployeeNeedsOrganization ==
    [][(/\ last'.op = "create_employee"
        /\ ~KnownOrganization(last'.request.organization_id))
       => /\ last'.status = 404
          /\ employees_db' = employees_db
          /\ organizations_db' = organizations_db
          /\ attendance_db' = attendance_db]_vars

\* create_employee was just refused while another organization exists.
C3_Witness ==
    /\ last.op = "create_employee"
    /\ last.status = 404
    /\ Len(organizations_db) > 0

\* C4: check_in with an employee_id that is no key of the employee collection
\* is answered 404 for the employee, whatever the (well-formed) location of
\* the request, and the attendance collection is unchanged.
C4_UnknownEmployee ==
    [][(/\ last'.op = "check_in"
        /\ ~KnownEmployee(last'.request.employee_id))
       => /\ InRange(last'.request.location) =>
                 /\ last'.status = 404
                 /\ last'.detail = "Employee not found"
          /\ attendance_db' = attendance_db]_vars

\* A check-in at the organization's own place was just refused for its
\* employee, while another employee exists.
C4_Witness ==
    /\ last.op = "check_in"
    /\ last.status = 404
    /\ last.request.location = Origin
    /\ Len(employees_db) > 0

StoredLocationsInRange ==
    /\ \A i \in DOMAIN organizations_db : InRange(organizations_db[i].value.location)
    /\ \A i \in DOMAIN attendance_db : InRange(attendance_db[i].value.location)

\* C5: a create-organization or check-in request whose location is out of
\* range is answered 422 and changes no collection, a location inside a range
\* or on its bound is not refused by validation, and every stored location has
\* its longitude in [-180, 180] and its latitude in [-90, 90].
C5_ValidCoordinates ==
    /\ []StoredLocationsInRange
    /\ [][last'.op \in {"create_organization", "check_in"}
          => /\ (last'.status = 422) <=> ~InRange(last'.request.location)
             /\ ~InRange(last'.request.location) => UNCHANGED dbs]_vars

\* Locations on the bounds are stored, an organization at (180, 90) and a
\* check-in at (-180, 90), and a check-in at (-180, -90) passed validation.
C5_Witness ==
    /\ \E i \in DOMAIN organizations_db :
           organizations_db[i].value.location.coordinates = <<180000000, 90000000>>
    /\ \E i \in DOMAIN attendance_db :
           attendance_db[i].value.location.coordinates = <<-180000000, 90000000>>
    /\ last.op = "check_in"
    /\ last.request.location.coordinates = <<-180000000, -90000000>>
    /\ last.status = 400

\* C6: for each collection and every step, the listing before the step is a
\* prefix of the listing after it, a step adds at most one record, a 201 adds
\* exactly one, and the list and get operations change nothing.
C6_AppendOnly ==
    [][/\ IsPrefix(list_organizations, list_organizations')
       /\ IsPrefix(list_employees, list_employees')
       /\ IsPrefix(list_attendance, list_attendance')
       /\ Len(list_organizations') + Len(list_employees') + Len(list_attendance')
              <= Len(list_organizations) + Len(list_employees)
                     + Len(list_attendance) + 1
       /\ last'.status = 201 =>
              Len(list_organizations') + Len(list_employees') + Len(list_attendance')
                  = Len(list_organizations) + Len(list_employees)
                        + Len(list_attendance) + 1
       /\ last'.op \in ListOps \cup {"get_employee"} => UNCHANGED dbs]_vars

\* Two organizations at different places are listed, in the order of creation.
C6_Witness ==
    /\ Len(list_organizations) = 2
    /\ list_organizations[1].location = NorthPole
    /\ list_organizations[2].location = Origin
    /\ last.op = "list_organizations"

UniqueWithin(d) ==
    /\ \A i, j \in DOMAIN d : d[i].key = d[j].key => i = j
    /\ \A i \in DOMAIN d : d[i].value.id = d[i].key

AllStoredIds ==
    [i \in 1 .. Stored |->
        IF i <= Len(organizations_db) THEN organizations_db[i].key
        ELSE IF i <= Len(organizations_db) + Len(employees_db)
        THEN employees_db[i - Len(organizations_db)].key
        ELSE attendance_db[i - Len(organizations_db) - Len(employees_db)].key]

AllIdsUnique ==
    \A i, j \in DOMAIN AllStoredIds : AllStoredIds[i] = AllStoredIds[j] => i = j

Collection(op) ==
    CASE op = "create_organization" -> organizations_db
      [] op = "create_employee"     -> employees_db
      [] op = "check_in"            -> attendance_db

\* C7 as stated: when the id generated for a new record equals the id of a
\* record already stored, in whichever collection, the create is answered 409
\* and no collection changes; so the ids of all stored records, of the three
\* collections together, are pairwise different.
C7_ConflictWithAnyRecord ==
    /\ []AllIdsUnique
    /\ [][(/\ last'.op \in {"create_organization", "create_employee", "check_in"}
           /\ last'.new_id # NoId
           /\ \E i \in DOMAIN AllStoredIds : AllStoredIds[i] = last'.new_id)
          => last'.status = 409 /\ UNCHANGED dbs]_vars

\* C7, amended: when the id generated for a new record equals the id of a
\* record already stored in the same collection, the create is answered 409 and
\* no collection changes; so within each collection the stored ids are unique.
C7_ConflictWithinCollection ==
    /\ [](/\ UniqueWithin(organizations_db)
          /\ UniqueWithin(employees_db)
          /\ UniqueWithin(attendance_db))
    /\ [][(/\ last'.op \in {"create_organization", "create_employee", "check_in"}
           /\ last'.new_id # NoId
           /\ \E i \in DOMAIN Collection(last'.op) :
                  Collection(last'.op)[i].key = last'.new_id)
          => last'.status = 409 /\ UNCHANGED dbs]_vars

\* A check-in was just refused for the id of its record.
C7_Witness ==
    /\ last.op = "check_in"
    /\ last.status = 409

\* C8: every stored employee's organization_id is a key of the organization
\* collection, and no check-in ends with "organization not found".
C8_EmployeesHaveOrganization ==
    /\ \A i \in DOMAIN employees_db :
           KnownOrganization(employees_db[i].value.organization_id)
    /\ ~(last.op = "check_in" /\ last.detail = "Organization not found")

\* Two employees of two organizations exist and a check-in went past step 2.
C8_Witness ==
    /\ Len(employees_db) = 2
    /\ employees_db[1].value.organization_id # employees_db[2].value.organization_id
    /\ last.op = "check_in"
    /\ last.status \in {201, 400}

\* C10: every stored attendance record has an employee_id that is a key of the
\* employee collection, the organization_id of that employee, which is a key of
\* the organization collection, and a distance_meters of at most 1000: the
\* distance from its location to that organization, to two decimals.
C10_AttendanceWasAccepted ==
    \A i \in DOMAIN attendance_db :
        LET rec == attendance_db[i].value
        IN  /\ KnownEmployee(rec.employee_id)
            /\ rec.organization_id # NoId
            /\ rec.organization_id = EmployeeWithId(rec.employee_id).organization_id
            /\ KnownOrganization(rec.organization_id)
            /\ ~TooFar(rec.distance_meters)
            /\ rec.distance_meters.mm % 10 = 0
            /\ Millis(rec.distance_meters)
                   - Millis(calculate_distance_meters(
                                rec.location,
                                OrganizationWithId(rec.organization_id).location))
                   \in -5 .. 5

\* Two records are stored, one of them taken 552.87 m from the organization.
C10_Witness ==
    /\ Len(attendance_db) = 2
    /\ \E i \in DOMAIN attendance_db :
           attendance_db[i].value.distance_meters = [m |-> 552, mm |-> 870]

\* C9: with several requests in flight, every step that changes a collection
\* or ends a request is the whole handler of one request in flight, checks and
\* write together, run on the collections as they are at that step; so the
\* collections are those of the requests handled one after the other in the
\* order their handlers ran, and no create overwrites a stored record.
C9_HandlersAreAtomic ==
    /\ [](/\ UniqueWithin(organizations_db)
          /\ UniqueWithin(employees_db)
          /\ UniqueWithin(attendance_db))
    /\ [][\/ UNCHANGED <<dbs, last>>
          \/ \E c \in Conns :
                 /\ tasks[c].pc # "idle"
                 /\ tasks'[c].pc = "idle"
                 /\ \A other \in Conns \ {c} : tasks'[other] = tasks[other]
                 /\ \E new_id \in UUIDs : Handle(tasks[c].req, new_id)]_vars

\* Two creates of an organization are in flight while a third request was
\* just refused for the id of its record.
C9_Witness ==
    /\ \A c \in Conns :
           tasks[c].pc = "pending" /\ tasks[c].req.op = "create_organization"
    /\ last.status = 409
    /\ Len(organizations_db) > 0

=============================================================================
